---- MODULE Spec2Model ----
(***************************************************************************)
(* A model of the retrieval core of review_assistant:                      *)
(*   - the chunker           (src/python/file_chunker.py)                  *)
(*   - the TF-IDF index and the retrieval session                          *)
(*                           (src/python/simple_rag_assistant.py)          *)
(* Spec         : a run of the chunker CLI (main -> chunk_text ->          *)
(*                write_chunks) and one re-run of it over the same source  *)
(*                text and the same output directory.                      *)
(* SpecSession  : one SimpleRAGAssistant object: setup() and ask().        *)
(* SpecCosine   : calls of SimpleVectorizer.cosine on sparse vectors.      *)
(* SpecFit      : calls of fit on a fresh SimpleVectorizer.                *)
(* SpecChunk    : calls of chunk_text; SpecChunkFair adds that the loop    *)
(*                of a call goes on until it is left.                      *)
(* SpecCli      : a run of the script simple_rag_assistant.py on a         *)
(*                directory and a standard input; SpecCliFair adds that    *)
(*                the script is run until it ends.                         *)
(***************************************************************************)
EXTENDS Integers, Sequences, FiniteSets

VARIABLES
    \* ---- chunker CLI ----
    text,       \* the content of the input file (a sequence of characters)
    pc,         \* "idle" | "chunking" | "writing" | "done"
    args,       \* the parsed command line of the current run
    pos,        \* chunk_text: pos
    chunk_idx,  \* chunk_text: chunk_idx
    chunks,     \* chunk_text: chunks
    wi,         \* write_chunks: index of the next chunk of the for loop
    written,    \* write_chunks: written
    files,      \* the output directory: chunk_id -> serialised record
    files0,     \* history: the output directory when write_chunks was entered
    now,        \* the wall clock, in seconds
    rerun,      \* TRUE once main has been started a second time
    prev,       \* history: the call of chunk_text that returned before this run
    exit,       \* the status returned by the last run of main, -1 before
    \* ---- retrieval session (one SimpleRAGAssistant) ----
    chunks_dir, \* the *.json files of self.chunks_dir at the last call of
                \* setup() (at construction, before the first), in glob order
    a_chunks,   \* SimpleRAGAssistant.chunks (VectorStore.texts is the same list)
    a_meta,     \* SimpleRAGAssistant.meta (VectorStore.meta is the same list)
    store,      \* SimpleRAGAssistant.store: NoStore or a VectorStore
    setups,     \* number of calls of setup() so far
    last,       \* history: the last call and its outcome
    \* ---- retrieval CLI (the script simple_rag_assistant.py) ----
    cli         \* the process: its position, its standard input, what it did

chunkerVars == <<text, pc, args, pos, chunk_idx, chunks, wi, written, files,
                 files0, now, rerun, prev, exit>>

sessionVars == <<chunks_dir, a_chunks, a_meta, store, setups, last>>

cliVars == <<cli>>

vars == <<chunkerVars, sessionVars, cliVars>>

----------------------------------------------------------------------------
(* Bounds of the model *)

MaxLen == 3        \* longest source text
MaxChunkSize == 2  \* largest --chunk-size
MaxClock == 1      \* the clock ticks at most this often

\* chunk_text is cut off after this many chunks: a call that emits more than
\* one chunk per character of the text is a call that does not terminate
MaxChunks == MaxLen + 1

Alphabet == {"a", "b"}
Paths == {"/in/f.txt", "/mnt/f.txt"}

RECURSIVE SeqsUpTo(_)
SeqsUpTo(n) ==
    IF n = 0 THEN {<<>>}
    ELSE LET S == SeqsUpTo(n - 1)
         IN  S \cup {Append(s, c) : s \in {t \in S : Len(t) = n - 1}, c \in Alphabet}

Texts == SeqsUpTo(MaxLen)
\* --chunk-size and --overlap are any int: the invalid values 0 and -1 included
Sizes == (0 - 1)..MaxChunkSize

----------------------------------------------------------------------------
(* Python helpers *)

Min(a, b) == IF a < b THEN a ELSE b
Max(a, b) == IF a > b THEN a ELSE b

\* s[i:j] for a str: negative indices count from the end, then both are
\* clamped to 0..len(s)
PyIndex(n, i) == IF i < 0 THEN Max(i + n, 0) ELSE Min(i, n)
PySlice(s, i, j) == SubSeq(s, PyIndex(Len(s), i) + 1, PyIndex(Len(s), j))

HexChars == <<"0", "1", "2", "3", "4", "5", "6", "7",
              "8", "9", "a", "b", "c", "d", "e", "f">>

HexSet == {HexChars[h] : h \in 1..16}

\* the digits of n >= 0 in the given base, most significant first
RECURSIVE Digits(_, _)
Digits(n, base) ==
    IF n < base THEN <<HexChars[n + 1]>>
    ELSE Append(Digits(n \div base, base), HexChars[(n % base) + 1])

RECURSIVE ZeroPad(_, _)
ZeroPad(s, width) == IF Len(s) >= width THEN s ELSE ZeroPad(<<"0">> \o s, width)

\* str(int)
PyStr(n) == IF n < 0 THEN <<"-">> \o Digits(0 - n, 10) ELSE Digits(n, 10)

----------------------------------------------------------------------------
(* chunk_text *)

HashLen == 12

CharCode(c) == IF c = "a" THEN 1 ELSE 2

\* hashlib.sha256(text.encode()).hexdigest()[:12]: a fixed-width hexadecimal
\* digest that depends on the text alone.  The digest is modelled by a
\* positional code of the characters, which like SHA-256 on these inputs
\* gives different texts different digests.
RECURSIVE Digest(_)
Digest(t) == IF t = <<>> THEN 0 ELSE 3 * Digest(SubSeq(t, 1, Len(t) - 1)) + CharCode(t[Len(t)])

\* a digest of the content and of the path of the file
FileHashOfPath(t, path) ==
    ZeroPad(Digits(Digest(t) + (IF path = "/in/f.txt" THEN 0 ELSE 1), 16), HashLen)

FileHash(t, path) == ZeroPad(Digits(Digest(t), 16), HashLen)

\* f"{file_hash}_{chunk_idx}"
ChunkId(file_hash, idx) == file_hash \o <<"_">> \o PyStr(idx)

\* an end that is not clamped to the length of the text
ChunkEndNoClamp(p, chunk_size, text_len) == p + chunk_size

\* end = min(pos + chunk_size, text_len)
ChunkEnd(p, chunk_size, text_len) == Min(p + chunk_size, text_len)

\* a step that skips a character
NextPosSkip(end, overlap) == end - overlap + 1

\* a step that drops the overlap
NextPosNoOverlap(end, overlap) == end

\* a step that goes back by one character more
NextPosBack(end, overlap) == end - overlap - 1

\* pos = end - overlap
NextPos(end, overlap) == end - overlap

\* an index that is never advanced
NextIdxStuck(idx) == idx

\* chunk_idx += 1
NextIdx(idx) == idx + 1

ChunkDict(t, path, p, end, idx, created) ==
    [content  |-> PySlice(t, p, end),
     metadata |-> [source     |-> path,
                   chunk_id   |-> ChunkId(FileHash(t, path), idx),
                   start_char |-> p,
                   end_char   |-> end,
                   created_at |-> created]]

NoRun == [ran |-> FALSE, chunk_size |-> 0, overlap |-> 0, chunks |-> <<>>]
NoArgs == [file_path |-> "/in/f.txt", chunk_size |-> 1, overlap |-> 0,
           append_mode |-> FALSE]

ChunksReturned == pc \in {"writing", "done"}

\* the chunker before its first run
ChunkerIdle(t) ==
    /\ text = t
    /\ pc = "idle"
    /\ args = NoArgs
    /\ pos = 0
    /\ chunk_idx = 0
    /\ chunks = <<>>
    /\ wi = 1
    /\ written = 0
    /\ files = <<>>
    /\ files0 = <<>>
    /\ now = 0
    /\ rerun = FALSE
    /\ prev = NoRun
    /\ exit = -1

\* SimpleVectorizer.__init__: doc_cnt, df, vocab = 0, {}, set()
NewVectorizer == [doc_cnt |-> 0, df |-> <<>>, vocab |-> {}]

\* self.store = None
NoStore == [built |-> FALSE, vect |-> NewVectorizer, vecs |-> <<>>]

NoCall == [op |-> "none"]

\* the script has not been started
CliOff == [pc |-> "off"]

\* SimpleRAGAssistant.__init__: chunks, meta, store = [], [], None
NewAssistant(d) ==
    /\ chunks_dir = d
    /\ a_chunks = <<>>
    /\ a_meta = <<>>
    /\ store = NoStore
    /\ setups = 0
    /\ last = NoCall

Init == \E t \in Texts : ChunkerIdle(t) /\ NewAssistant(<<>>) /\ cli = CliOff

\* main: parse_cli, read the input file, enter chunk_text
MainStart ==
    /\ \/ pc = "idle"
       \/ pc = "done" /\ ~rerun
    /\ \E path \in Paths, cs \in Sizes, ov \in Sizes, am \in BOOLEAN :
          args' = [file_path |-> path, chunk_size |-> cs, overlap |-> ov,
                   append_mode |-> am]
    /\ prev' = IF pc = "done"
               THEN [ran |-> TRUE, chunk_size |-> args.chunk_size,
                     overlap |-> args.overlap, chunks |-> chunks]
               ELSE prev
    /\ rerun' = (pc = "done")
    /\ pc' = "chunking"
    /\ pos' = 0
    /\ chunk_idx' = 0
    /\ chunks' = <<>>
    /\ UNCHANGED <<text, wi, written, files, files0, now, exit>>
    /\ UNCHANGED <<sessionVars, cliVars>>

\* chunk_text: the while loop is left because pos >= text_len
ChunkLoopExit ==
    /\ pc = "chunking"
    /\ ~(pos < Len(text))
    /\ pc' = "writing"
    /\ wi' = 1
    /\ written' = 0
    /\ files0' = files
    /\ UNCHANGED <<text, args, pos, chunk_idx, chunks, files, now, rerun, prev, exit>>
    /\ UNCHANGED <<sessionVars, cliVars>>

\* chunk_text: one iteration of the while loop
ChunkStep ==
    /\ pc = "chunking"
    /\ pos < Len(text)
    /\ Len(chunks) < MaxChunks
    /\ \E t \in now..Min(now + 1, MaxClock) :
        LET end == ChunkEnd(pos, args.chunk_size, Len(text))
            ch  == ChunkDict(text, args.file_path, pos, end, chunk_idx, t)
        IN  /\ now' = t
            /\ chunks' = Append(chunks, ch)
            /\ IF end = Len(text)
               THEN /\ pc' = "writing"
                    /\ wi' = 1
                    /\ written' = 0
                    /\ files0' = files
                    /\ UNCHANGED <<pos, chunk_idx>>
               ELSE /\ pos' = NextPos(end, args.overlap)
                    /\ chunk_idx' = NextIdx(chunk_idx)
                    /\ UNCHANGED <<pc, wi, written, files0>>
    /\ UNCHANGED <<text, args, files, rerun, prev, exit>>
    /\ UNCHANGED <<sessionVars, cliVars>>

----------------------------------------------------------------------------
(* write_chunks *)

\* json.dump(ch, f, ensure_ascii=False, indent=2): the keys in insertion order
JsonDump(ch) ==
    <<"content", ch.content,
      "metadata", <<"source", ch.metadata.source,
                    "chunk_id", ch.metadata.chunk_id,
                    "start_char", ch.metadata.start_char,
                    "end_char", ch.metadata.end_char,
                    "created_at", ch.metadata.created_at>>>>

\* a file name made of the hash alone, the same for every chunk of a text
FileNameOfHash(ch) == SubSeq(ch.metadata.chunk_id, 1, HashLen) \o <<".json">>

\* fname = output_dir / f"{chunk_id}.json"
FileName(ch) == ch.metadata.chunk_id \o <<".json">>

\* a skip that is never taken
SkipsNever(append_mode, exists) == FALSE

\* if append_mode and fname.exists(): continue
SkipsExisting(append_mode, exists) == append_mode /\ exists

WriteFile(dir, fname, data) ==
    [f \in DOMAIN dir \cup {fname} |-> IF f = fname THEN data ELSE dir[f]]

\* write_chunks: one iteration of the for loop
WriteStep ==
    /\ pc = "writing"
    /\ wi <= Len(chunks)
    /\ LET ch == chunks[wi]
           fname == FileName(ch)
       IN  IF SkipsExisting(args.append_mode, fname \in DOMAIN files)
           THEN UNCHANGED <<files, written>>
           ELSE /\ files' = WriteFile(files, fname, JsonDump(ch))
                /\ written' = written + 1
    /\ wi' = wi + 1
    /\ UNCHANGED <<text, pc, args, pos, chunk_idx, chunks, files0, now, rerun, prev, exit>>
    /\ UNCHANGED <<sessionVars, cliVars>>

\* write_chunks: the body of the for loop as a function of the directory
WriteOne(dir, ch, append_mode) ==
    IF SkipsExisting(append_mode, FileName(ch) \in DOMAIN dir) THEN dir
    ELSE WriteFile(dir, FileName(ch), JsonDump(ch))

\* the directory after the bodies of the loop have run in the given order
RECURSIVE WriteInOrder(_, _, _, _)
WriteInOrder(dir, chs, order, append_mode) ==
    IF order = <<>> THEN dir
    ELSE WriteInOrder(WriteOne(dir, chs[Head(order)], append_mode), chs,
                      Tail(order), append_mode)

\* a status that reports every run as a success
ExitStatusZero(w) == 0

\* return 0 if written else 1
ExitStatus(w) == IF w # 0 THEN 0 ELSE 1

\* write_chunks returns; main returns its status
MainReturn ==
    /\ pc = "writing"
    /\ wi > Len(chunks)
    /\ pc' = "done"
    /\ exit' = ExitStatus(written)
    /\ UNCHANGED <<text, args, pos, chunk_idx, chunks, wi, written, files, files0,
                   now, rerun, prev>>
    /\ UNCHANGED <<sessionVars, cliVars>>

Next ==
    \/ MainStart
    \/ ChunkLoopExit
    \/ ChunkStep
    \/ WriteStep
    \/ MainReturn

Spec == Init /\ [][Next]_vars

----------------------------------------------------------------------------
(* chunk_text as a function of the text and of its arguments *)

\* the state when chunk_text is entered
InitChunk ==
    /\ \E t \in Texts : ChunkerIdle(t)
    /\ NewAssistant(<<>>)
    /\ cli = CliOff

\* the call of chunk_text
CallChunkText ==
    /\ pc = "idle"
    /\ \E cs \in Sizes, ov \in Sizes :
          args' = [NoArgs EXCEPT !.chunk_size = cs, !.overlap = ov]
    /\ pc' = "chunking"
    /\ UNCHANGED <<text, pos, chunk_idx, chunks, wi, written, files, files0, now,
                   rerun, prev, exit>>
    /\ UNCHANGED <<sessionVars, cliVars>>

NextChunk ==
    \/ CallChunkText
    \/ ChunkLoopExit
    \/ ChunkStep

SpecChunk == InitChunk /\ [][NextChunk]_vars

\* the interpreter goes on executing the loop of a call that has not returned
SpecChunkFair == SpecChunk /\ WF_vars(ChunkStep) /\ WF_vars(ChunkLoopExit)

----------------------------------------------------------------------------
(* SimpleVectorizer.  A text is a sequence of words (what is left of it once  *)
(* re.sub has replaced the punctuation by blanks and split() has cut it at   *)
(* the blanks).  A float is a fixed-point number of Scale units: x stands    *)
(* for x / Scale, and every division and square root rounds to the nearest   *)
(* unit.                                                                     *)

Scale == 5 * 100

\* a / b, rounded to the nearest unit, for a >= 0 and b > 0
RoundDiv(a, b) == (2 * a + b) \div (2 * b)

RECURSIVE IsqrtIter(_, _)
IsqrtIter(n, x) ==
    LET y == (x + n \div x) \div 2
    IN  IF y >= x THEN x ELSE IsqrtIter(n, y)

\* math.sqrt(n), rounded to the nearest unit
Sqrt(n) ==
    IF n = 0 THEN 0
    ELSE LET r == IsqrtIter(n, n)
         IN  IF n - r * r > r THEN r + 1 ELSE r

\* math.log(n) for n = 1, 2, ..., in Scale units
LnTable == <<0, 347, 549, 693, 805, 896, 973, 1040, 1099, 1151,
             1199, 1242, 1282, 1320, 1354, 1386, 1417, 1445, 1472, 1498>>

\* math.log(a / b)
Log(a, b) == LnTable[a] - LnTable[b]

\* The range of a float.  A value above FloatMax is inf, and nan is the
\* result of inf * 0 and of inf / inf; weights are never negative, so the
\* negative number NaN stands for no weight.
FloatMax == 4 * 1000 * 1000
Inf == FloatMax + 1
NaN == 0 - 1

\* x * y
FMul(x, y) ==
    IF x = NaN \/ y = NaN THEN NaN
    ELSE IF x = 0 \/ y = 0 THEN (IF x = Inf \/ y = Inf THEN NaN ELSE 0)
    ELSE IF x = Inf \/ y = Inf THEN Inf
    ELSE IF x > FloatMax \div y THEN Inf
    ELSE x * y

\* x + y
FAdd(x, y) ==
    IF x = NaN \/ y = NaN THEN NaN
    ELSE IF x = Inf \/ y = Inf THEN Inf
    ELSE IF x + y > FloatMax THEN Inf
    ELSE x + y

Range(s) == {s[i] : i \in 1..Len(s)}

stop_words == {
    "a", "an", "the", "and", "or", "but", "if", "because", "as", "what", "when",
    "where", "how", "which", "who", "whom", "this", "that", "these", "those",
    "again", "about", "for", "is", "of", "while", "during", "to", "from", "in",
    "out", "on", "off", "over", "under", "through", "no", "not", "only", "own",
    "same", "so", "than", "too", "very", "can", "will", "just", "now", "with",
    "by", "be", "been", "being", "am", "are", "was", "were"}

\* str.lower, on the words of the model
Lower(w) ==
    CASE w = "Banana" -> "banana"
      [] w = "The" -> "the"
      [] w = "EXIT" -> "exit"
      [] w = "Quit" -> "quit"
      [] OTHER -> w

\* a filter that also drops the words of up to five letters
KeepTokenLong(w) == w \notin stop_words /\ Len(w) > 5

\* w not in self.stop_words and len(w) > 1
KeepToken(w) == w \notin stop_words /\ Len(w) > 1

\* _tokenise
Tokenise(txt) == SelectSeq([i \in 1..Len(txt) |-> Lower(txt[i])], KeepToken)

\* _tf
Tf(tokens) ==
    [t \in Range(tokens) |-> Cardinality({i \in 1..Len(tokens) : tokens[i] = t})]

\* self.df.get(tok, 0)
DfGet(df, tok) == IF tok \in DOMAIN df THEN df[tok] ELSE 0

\* the tokens of a document, every occurrence
TokenList(tokens) == tokens

\* set(tokens), as the sequence of the first occurrences
RECURSIVE TokenSet(_)
TokenSet(tokens) ==
    IF tokens = <<>> THEN <<>>
    ELSE LET r == TokenSet(SubSeq(tokens, 1, Len(tokens) - 1))
             t == tokens[Len(tokens)]
         IN  IF t \in Range(r) THEN r ELSE Append(r, t)

\* fit: the for loop over docs, from document i on; the inner loop adds 1 to
\* df[tok] for every element tok of toks
RECURSIVE FitFrom(_, _, _)
FitFrom(v, docs, i) ==
    IF i > Len(docs) THEN v
    ELSE LET toks == TokenSet(Tokenise(docs[i]))
         IN  FitFrom([v EXCEPT !.vocab = v.vocab \cup Range(toks),
                               !.df = [t \in DOMAIN v.df \cup Range(toks) |->
                                          DfGet(v.df, t)
                                          + Cardinality({j \in 1..Len(toks) : toks[j] = t})]],
                     docs, i + 1)

\* fit
Fit(v, docs) == FitFrom([v EXCEPT !.doc_cnt = Len(docs)], docs, 1)

\* idf = math.log((doc_cnt + 1) / (df.get(tok, 0) + 1)) + 1
Idf(v, tok) == Log(v.doc_cnt + 1, DfGet(v.df, tok) + 1) + Scale

\* vector
Vector(v, doc) ==
    LET tokens == Tokenise(doc)
        tf_raw == Tf(tokens)
        denom  == Max(Len(tokens), 1)
    IN  [tok \in DOMAIN tf_raw |->
            RoundDiv(RoundDiv(tf_raw[tok] * Scale, denom) * Idf(v, tok), Scale)]

RECURSIVE FSum(_, _)
\* sum(f[t] for t in S), of floats
FSum(f, S) ==
    IF S = {} THEN 0
    ELSE LET t == CHOOSE u \in S : TRUE
         IN  FAdd(f[t], FSum(f, S \ {t}))

\* math.sqrt(x)
FSqrt(x) == IF x = NaN \/ x = Inf THEN x ELSE Sqrt(x)

\* x / y for y # 0, where x and y are in units of Scale * Scale and the
\* quotient in units of Scale
FDiv(x, y) ==
    IF x = NaN \/ y = NaN THEN NaN
    ELSE IF y = Inf THEN (IF x = Inf THEN NaN ELSE 0)
    ELSE IF x = Inf THEN Inf
    ELSE RoundDiv(x * Scale, y)

\* cosine
Cosine(a, b) ==
    LET common == DOMAIN a \cap DOMAIN b
        dot == FSum([t \in common |-> FMul(a[t], b[t])], common)
        mag == FMul(FSqrt(FSum([t \in DOMAIN a |-> FMul(a[t], a[t])], DOMAIN a)),
                    FSqrt(FSum([t \in DOMAIN b |-> FMul(b[t], b[t])], DOMAIN b)))
    IN  IF mag = 0 THEN 0 ELSE FDiv(dot, mag)

----------------------------------------------------------------------------
(* VectorStore *)

\* VectorStore.__init__: texts and meta are kept by reference
VectorStoreInit(texts) ==
    LET vect == Fit(NewVectorizer, texts)
    IN  [built |-> TRUE, vect |-> vect,
         vecs |-> [i \in 1..Len(texts) |-> Vector(vect, texts[i])]]

Reverse(s) == [i \in 1..Len(s) |-> s[Len(s) + 1 - i]]

\* the place of x in the sorted sequence s, behind every element whose key is
\* not larger
RECURSIVE InsertAsc(_, _, _)
InsertAsc(s, x, key) ==
    IF s = <<>> \/ key[s[Len(s)]] <= key[x] THEN Append(s, x)
    ELSE Append(InsertAsc(SubSeq(s, 1, Len(s) - 1), x, key), s[Len(s)])

\* list.sort: stable, ascending
RECURSIVE SortAsc(_, _)
SortAsc(s, key) ==
    IF s = <<>> THEN <<>>
    ELSE InsertAsc(SortAsc(SubSeq(s, 1, Len(s) - 1), key), s[Len(s)], key)

\* an ascending sort read backwards
SortedAscBackwards(s, key) == Reverse(SortAsc(s, key))

\* sorted(s, key=..., reverse=True): the list is reversed, sorted ascending by
\* a stable sort and reversed again, so equal keys keep their order
SortedReverse(s, key) == Reverse(SortAsc(Reverse(s), key))

\* search, up to the ranking: sims and ranked
Sims(st, query) ==
    LET qv == Vector(st.vect, query)
    IN  [i \in 1..Len(st.vecs) |-> Cosine(qv, st.vecs[i])]

Ranked(sims, k) ==
    PySlice(SortedReverse([i \in 1..Len(sims) |-> i], sims), 0, k)

----------------------------------------------------------------------------
(* SimpleRAGAssistant *)

MaxFiles == 2     \* most *.json files in chunks_dir (DirABC apart)
MaxSetups == 2    \* most calls of setup() on one session
MaxK == 3         \* largest k of ask(q, k)

DocA == <<"apple", "banana">>
DocB == <<"banana", "cherry">>
DocC == <<"durian">>
DocD == <<"The", "x">>

Docs == {DocA, DocB, DocC, DocD}

\* a "content" that is not a str: the JSON number 7.  It is no text of Docs.
IntContent == <<"7">>

\* isinstance(c, str)
IsStr(c) == c # IntContent
Queries == {<<"banana">>, <<"Banana", "cherry">>, <<"zebra">>, <<>>}
Ks == (0 - 1)..MaxK

\* metadata.source and metadata.chunk_id of the record that holds a text
SourceOf(doc) == <<"repo", "src", <<doc[1], ".py">>>>
IdOfDoc(doc) == <<doc[1], "_", "0">>

\* A chunk file.  has_content is FALSE for a file on which json.loads or
\* data["content"] raises: a text that is not JSON, a JSON value that is not
\* an object, an object without the key "content".  Otherwise content is the
\* value of the key, a text or IntContent, and the key "metadata" is an object
\* ("ok"), is missing ("absent") or is not an object ("malformed").
ChunkFiles ==
    [has_content : {TRUE}, content : Docs, metadata : {"ok"}]
    \cup {[has_content |-> FALSE, content |-> <<>>, metadata |-> "ok"],
          [has_content |-> TRUE, content |-> DocA, metadata |-> "malformed"],
          [has_content |-> TRUE, content |-> DocC, metadata |-> "absent"],
          [has_content |-> TRUE, content |-> IntContent, metadata |-> "absent"]}

RECURSIVE DirsUpTo(_)
DirsUpTo(n) ==
    IF n = 0 THEN {<<>>}
    ELSE LET S == DirsUpTo(n - 1)
         IN  S \cup {Append(d, f) : d \in {e \in S : Len(e) = n - 1}, f \in ChunkFiles}

ValidFile(doc) == [has_content |-> TRUE, content |-> doc, metadata |-> "ok"]

\* the corpus of three chunks "apple banana", "banana cherry", "durian"
DirABC == <<ValidFile(DocA), ValidFile(DocB), ValidFile(DocC)>>

\* a corpus that holds the text "banana cherry" twice
DirBBC == <<ValidFile(DocB), ValidFile(DocB), ValidFile(DocC)>>

NoContentFile == [has_content |-> FALSE, content |-> <<>>, metadata |-> "ok"]

\* s with x put in front of its i-th element
InsertAt(s, i, x) == SubSeq(s, 1, i - 1) \o <<x>> \o SubSeq(s, i, Len(s))

FiveValid == <<ValidFile(DocA), ValidFile(DocB), ValidFile(DocC),
               ValidFile(DocD), ValidFile(DocA)>>

\* the directories of five valid records and one record without "content"
DirsFiveAndOne == {InsertAt(FiveValid, i, NoContentFile) : i \in 1..6}

Dirs == DirsUpTo(MaxFiles) \cup {DirABC, DirBBC} \cup DirsFiveAndOne

\* fp.name and fp.stem of the i-th file
FpName(i) == <<"chunk", i, ".json">>
FpStem(i) == <<"chunk", i>>

\* Path(p).name: the last component of the path p, a sequence of components
PathName(p) == p[Len(p)]

\* the entry of self.meta for the i-th file f of the directory:
\* {"source": Path(md.get("source", fp.name)).name,
\*  "chunk_id": md.get("chunk_id", fp.stem)} with md = data.get("metadata", {})
MetaOf(f, i) ==
    IF f.metadata = "ok"
    THEN [source |-> PathName(SourceOf(f.content)), chunk_id |-> IdOfDoc(f.content)]
    ELSE [source |-> PathName(<<FpName(i)>>), chunk_id |-> FpStem(i)]

\* a loader that drops a record without "content" and prints nothing
LoadFileSilent(acc, f, i) ==
    IF ~f.has_content
    THEN acc
    ELSE [acc EXCEPT !.chunks = Append(acc.chunks, f.content),
                     !.meta = Append(acc.meta, [source |-> PathName(SourceOf(f.content)),
                                                chunk_id |-> IdOfDoc(f.content)])]

\* _load_chunks: the body of the for loop for the i-th file.  data["content"]
\* raises before anything is appended; a metadata that is not an object raises
\* in data.get("metadata", {}).get(...), after self.chunks.append.
LoadFile(acc, f, i) ==
    IF ~f.has_content
    THEN [acc EXCEPT !.skipped = acc.skipped + 1]
    ELSE IF f.metadata = "malformed"
    THEN [acc EXCEPT !.chunks = Append(acc.chunks, f.content),
                     !.skipped = acc.skipped + 1]
    ELSE [acc EXCEPT !.chunks = Append(acc.chunks, f.content),
                     !.meta = Append(acc.meta, MetaOf(f, i))]

\* _load_chunks: the for loop, from the i-th file on
RECURSIVE LoadFrom(_, _, _)
LoadFrom(acc, fs, i) ==
    IF i > Len(fs) THEN acc ELSE LoadFrom(LoadFile(acc, fs[i], i), fs, i + 1)

\* _load_chunks: the lists after the call, the "Skipped" lines printed, and
\* the value returned
LoadChunks(cs, ms, fs) ==
    IF fs = <<>>
    THEN [chunks |-> cs, meta |-> ms, skipped |-> 0, ok |-> FALSE]
    ELSE LET acc == LoadFrom([chunks |-> cs, meta |-> ms, skipped |-> 0], fs, 1)
         IN  [chunks |-> acc.chunks, meta |-> acc.meta, skipped |-> acc.skipped,
              ok |-> acc.chunks # <<>>]

Call(op, q, k, outcome, skipped, sims, hits) ==
    [op |-> op, q |-> q, k |-> k, outcome |-> outcome, skipped |-> skipped,
     sims |-> sims, hits |-> hits]

InitSession ==
    /\ ChunkerIdle(<<>>)
    /\ \E d \in Dirs : NewAssistant(d)
    /\ cli = CliOff

\* VectorStore(self.chunks, self.meta) raises: fit calls _tokenise on every
\* text, and txt.lower() raises AttributeError on a text that is not a str
FitRaises(texts) == \E i \in 1..Len(texts) : ~IsStr(texts[i])

\* the files that are written into the directory between two calls
Arrivals == {ValidFile(DocB), NoContentFile}

\* list(self.chunks_dir.glob("*.json")) at the time of a call: the files that
\* were there at the last call, and possibly one written since
Listings(d) ==
    {d} \cup (IF Len(d) < MaxFiles THEN {Append(d, f) : f \in Arrivals} ELSE {})

\* setup, on an assistant whose lists are cs and ms and whose store is st,
\* when glob returns the files d.  When VectorStore(...) raises, self.store
\* is not assigned.
SetupOf(cs, ms, st, d) ==
    LET l == LoadChunks(cs, ms, d)
        built == l.ok /\ ~FitRaises(l.chunks)
    IN  [chunks |-> l.chunks,
         meta |-> l.meta,
         store |-> IF built THEN VectorStoreInit(l.chunks) ELSE st,
         call |-> Call("setup", <<>>, 0,
                       IF ~l.ok THEN "false"
                       ELSE IF built THEN "true" ELSE "AttributeError",
                       l.skipped, <<>>, <<>>)]

\* the session after the setup that gave r, on the files d
SetupDone(r, d) ==
    /\ chunks_dir' = d
    /\ a_chunks' = r.chunks
    /\ a_meta' = r.meta
    /\ store' = r.store
    /\ last' = r.call

\* a call of setup() on the session
Setup ==
    /\ setups < MaxSetups
    /\ setups' = setups + 1
    /\ \E d \in Listings(chunks_dir) :
          \E r \in {SetupOf(a_chunks, a_meta, store, d)} : SetupDone(r, d)
    /\ UNCHANGED <<chunkerVars, cliVars>>

\* search: the list that is returned; self.meta[i] raises IndexError when the
\* i-th text has no metadata
Hit(i, sims) == [i |-> i, text |-> a_chunks[i], meta |-> a_meta[i], sim |-> sims[i]]

\* a vector() that counts the words of the document it is given, as fit does
AfterVectorFits(v, doc) == FitFrom(v, <<doc>>, 1)

\* vector: the vectorizer after the call.  vector reads self.doc_cnt and
\* self.df (through df.get) and assigns to no attribute of self.
AfterVector(v, doc) == v

\* search: the store after the call
AfterSearch(st, query) == [st EXCEPT !.vect = AfterVector(st.vect, query)]

\* a test that takes every session for one that is set up
StoreUnsetNever(st) == FALSE

\* not self.store
StoreUnset(st) == ~st.built

\* ask(q, k): the store after the call, and the call with its outcome
AskOf(q, k) ==
    IF StoreUnset(store)
    THEN [store |-> store, call |-> Call("ask", q, k, "not_initialised", 0, <<>>, <<>>)]
    ELSE LET sims == Sims(store, q)
             ranked == Ranked(sims, k)
         IN  [store |-> AfterSearch(store, q),
              call |-> IF \E j \in 1..Len(ranked) : ranked[j] > Len(a_meta)
                       THEN Call("ask", q, k, "IndexError", 0, sims, <<>>)
                       ELSE LET results == [j \in 1..Len(ranked) |-> Hit(ranked[j], sims)]
                            IN  Call("ask", q, k,
                                     IF results = <<>> THEN "no_info" ELSE "answer",
                                     0, sims, results)]

\* a call of ask() on the session
Ask ==
    /\ \E q \in Queries, k \in Ks :
          \E r \in {AskOf(q, k)} : store' = r.store /\ last' = r.call
    /\ UNCHANGED <<chunks_dir, a_chunks, a_meta, setups, chunkerVars, cliVars>>

NextSession ==
    \/ Setup
    \/ Ask

SpecSession == InitSession /\ [][NextSession]_vars

-----------------------------------------------------------------------------
(* The script simple_rag_assistant.py.  The file holds the whole program
   twice, the line  if __name__ == "__main__": main()  included, so that the
   interpreter calls main() at line 151 and, when that call returns, again at
   line 302. *)

\* the longest standard input
MaxLines == 3

\* ask(self, q, k=3)
DefaultK == 3

\* A line is the sequence of its words and of the blanks between them.
Space == " "

\* input() raises KeyboardInterrupt
Interrupt == <<"KeyboardInterrupt">>

Lines ==
    {<<"banana">>, <<>>, <<Space>>, <<"exit">>, <<Space, "Quit", Space>>,
     <<"exit", Space, "banana">>}

Events == Lines \cup {Interrupt}

RECURSIVE StdinsUpTo(_)
StdinsUpTo(n) ==
    IF n = 0 THEN {<<>>}
    ELSE LET shorter == StdinsUpTo(n - 1)
         IN  shorter \cup {Append(s, e) : s \in {t \in shorter : Len(t) = n - 1},
                                          e \in Events}

\* the directories the script is started on
CliDirs ==
    {<<>>, <<NoContentFile>>, DirABC, <<ValidFile(DocA)>>,
     <<[has_content |-> TRUE, content |-> DocA, metadata |-> "malformed"]>>,
     <<[has_content |-> TRUE, content |-> IntContent, metadata |-> "absent"]>>,
     <<NoContentFile, ValidFile(DocB)>>}

\* str.strip
RECURSIVE LStrip(_)
LStrip(s) == IF s # <<>> /\ Head(s) = Space THEN LStrip(Tail(s)) ELSE s

Strip(s) == Reverse(LStrip(Reverse(LStrip(s))))

\* str.lower
LowerLine(s) == [i \in 1..Len(s) |-> Lower(s[i])]

\* the words re.findall(r"\w+", ...) finds in a line
WordsOf(s) == SelectSeq(s, LAMBDA c : c # Space)

\* q.lower() in {"exit", "quit"}
IsExitWord(q) == LowerLine(q) \in {<<"exit">>, <<"quit">>}

\* the process before the first statement of the script
CliBoot(in, e) ==
    [pc |-> "start", run |-> 1, stdin |-> in, exists |-> e, loops |-> 0,
     reads |-> 0, asked |-> <<>>, stopped |-> FALSE, status |-> 0 - 1]

InitCli ==
    /\ ChunkerIdle(<<>>)
    /\ \E d \in CliDirs : NewAssistant(d)
    /\ \E in \in StdinsUpTo(MaxLines), e \in BOOLEAN :
          /\ e \/ chunks_dir = <<>>
          /\ cli = CliBoot(in, e)

\* main after setup(): the loop is entered when setup() returned True;
\* sys.exit(1) and an exception that setup() raised both end the process with
\* status 1
AfterSetup(c, outcome) ==
    IF outcome = "true"
    THEN [c EXCEPT !.pc = "loop", !.loops = @ + 1]
    ELSE [c EXCEPT !.pc = "exited", !.status = 1]

\* main, from its first statement to the loop: a new assistant is built and
\* set up.  glob on a directory that does not exist yields no file.
CliStart ==
    /\ cli.pc = "start"
    /\ \E r \in {SetupOf(<<>>, <<>>, NoStore, IF cli.exists THEN chunks_dir ELSE <<>>)} :
          /\ SetupDone(r, chunks_dir)
          /\ cli' = AfterSetup(cli, r.call.outcome)
    /\ setups' = 1
    /\ UNCHANGED chunkerVars

\* break: "Goodbye" is printed and main returns.  The first call is followed
\* by the second one; after the second the script ends with status 0.
Break(c) ==
    IF c.run = 1 THEN [c EXCEPT !.pc = "start", !.run = 2]
    ELSE [c EXCEPT !.pc = "exited", !.status = 0]

\* the next input() returns a line that is passed to ask(): it is no exit
\* keyword and it is not blank
ReadsQuery(c) ==
    /\ c.stdin # <<>>
    /\ Head(c.stdin) # Interrupt
    /\ ~IsExitWord(Strip(Head(c.stdin)))
    /\ Strip(Head(c.stdin)) # <<>>

\* the process after one iteration of the while loop; outcome is that of
\* ask() when the iteration calls it.  IndexError is not caught.
AfterInput(c, outcome) ==
    LET read == [c EXCEPT !.reads = @ + 1,
                          !.stdin = IF @ = <<>> THEN @ ELSE Tail(@)]
    IN  IF c.stdin = <<>>
        THEN Break([read EXCEPT !.stopped = TRUE])          \* EOFError
        ELSE IF Head(c.stdin) = Interrupt
        THEN Break(read)
        ELSE LET q == Strip(Head(c.stdin))
             IN  IF IsExitWord(q) THEN Break([read EXCEPT !.stopped = TRUE])
                 ELSE IF q = <<>> THEN read
                 ELSE IF outcome = "IndexError"
                 THEN [read EXCEPT !.pc = "exited", !.status = 1,
                                   !.asked = Append(@, q)]
                 ELSE [read EXCEPT !.asked = Append(@, q)]

\* one iteration of the while loop
CliRead ==
    /\ cli.pc = "loop"
    /\ IF ReadsQuery(cli)
       THEN \E r \in {AskOf(WordsOf(Strip(Head(cli.stdin))), DefaultK)} :
               /\ store' = r.store
               /\ last' = r.call
               /\ cli' = AfterInput(cli, r.call.outcome)
       ELSE /\ cli' = AfterInput(cli, "none")
            /\ UNCHANGED <<store, last>>
    /\ UNCHANGED <<chunks_dir, a_chunks, a_meta, setups, chunkerVars>>

NextCli ==
    \/ CliStart
    \/ CliRead

SpecCli == InitCli /\ [][NextCli]_vars

\* What a step of the script does to the process, whatever setup() and ask()
\* give: every step of NextCli is one of these, and one of them is possible
\* exactly when the script has not ended.
CliRuns ==
    /\ cli.pc \in {"start", "loop"}
    /\ \E outcome \in {"true", "false", "AttributeError", "IndexError", "answer"} :
          cli' = IF cli.pc = "start" THEN AfterSetup(cli, outcome)
                 ELSE AfterInput(cli, outcome)

\* the interpreter runs the script until it ends
SpecCliFair == SpecCli /\ WF_cli(CliRuns)

----------------------------------------------------------------------------
(* SimpleVectorizer.cosine as a function of two sparse vectors *)

CosTerms == {"apple", "banana"}

\* the weights of a vector: 0.0, 1.0, and a float whose square is inf
Huge == FloatMax
Weights == {0, Scale, Huge}

\* the dicts over CosTerms: every term is absent or has a weight
SparseVectors == UNION {[T -> Weights] : T \in SUBSET CosTerms}

InitCosine ==
    /\ ChunkerIdle(<<>>)
    /\ NewAssistant(<<>>)
    /\ cli = CliOff

\* a call of SimpleVectorizer.cosine(a, b)
CallCosine ==
    /\ \E a \in SparseVectors, b \in SparseVectors :
          last' = [op |-> "cosine", a |-> a, b |-> b, r |-> Cosine(a, b)]
    /\ UNCHANGED <<chunks_dir, a_chunks, a_meta, store, setups, chunkerVars, cliVars>>

NextCosine == CallCosine

SpecCosine == InitCosine /\ [][NextCosine]_vars

----------------------------------------------------------------------------
(* SimpleVectorizer.fit as a function of a list of documents *)

MaxDocs == 3      \* most documents of one call of fit

FitTexts == {<<"banana", "banana">>, <<"apple", "banana">>, <<"The", "x">>,
             <<"Banana">>, <<>>}

RECURSIVE DocListsUpTo(_)
DocListsUpTo(n) ==
    IF n = 0 THEN {<<>>}
    ELSE LET S == DocListsUpTo(n - 1)
         IN  S \cup {Append(d, t) : d \in {e \in S : Len(e) = n - 1}, t \in FitTexts}

InitFit ==
    /\ ChunkerIdle(<<>>)
    /\ NewAssistant(<<>>)
    /\ cli = CliOff

\* v = SimpleVectorizer(); v.fit(docs)
CallFit ==
    /\ \E docs \in DocListsUpTo(MaxDocs) :
          last' = [op |-> "fit", docs |-> docs, vect |-> Fit(NewVectorizer, docs)]
    /\ UNCHANGED <<chunks_dir, a_chunks, a_meta, store, setups, chunkerVars, cliVars>>

NextFit == CallFit

SpecFit == InitFit /\ [][NextFit]_vars

----------------------------------------------------------------------------
(* Properties of the chunker *)

\* the precondition of chunk(): chunkSize > 0 and 0 <= overlap < chunkSize
ValidConfig(a) == a.chunk_size > 0 /\ 0 <= a.overlap /\ a.overlap < a.chunk_size

\* ceil(a / b) for b > 0
CeilDiv(a, b) == 0 - ((0 - a) \div b)

StartOf(i) == chunks[i].metadata.start_char
EndOf(i) == chunks[i].metadata.end_char
IdOf(i) == chunks[i].metadata.chunk_id

\* C1: a call of chunk() with chunkSize <= 0, overlap < 0 or overlap >= chunkSize
\* is rejected before any iteration: it never emits a chunk.
C1_InvalidConfigRejected ==
    (pc # "idle" /\ ~ValidConfig(args)) => chunks = <<>>

\* C2: for a nonempty text and a valid configuration, chunk() returns exactly
\* ceil((|T| - overlap) / (chunkSize - overlap)) chunks.
C2_CountFormula ==
    (ChunksReturned /\ ValidConfig(args) /\ text # <<>>)
        => Len(chunks) = CeilDiv(Len(text) - args.overlap,
                                 args.chunk_size - args.overlap)

\* C2 (amended): for a nonempty text and a valid configuration, chunk() returns
\* exactly max(1, ceil((|T| - overlap) / (chunkSize - overlap))) chunks: the
\* formula when |T| > overlap, and one chunk when |T| <= overlap.
C2_CountAmended ==
    (ChunksReturned /\ ValidConfig(args) /\ text # <<>>)
        => Len(chunks) = Max(1, CeilDiv(Len(text) - args.overlap,
                                        args.chunk_size - args.overlap))

C2_Witness ==
    /\ ChunksReturned /\ ValidConfig(args)
    /\ args.overlap > 0
    /\ Len(chunks) >= 2

\* C3: for a nonempty text and a valid configuration the chunks returned by
\* chunk() cover the text with no gap: the first starts at 0, the last ends at
\* |T|, each later chunk starts at or before the end of the chunk before it,
\* and every character position lies in some chunk.
C3_Coverage ==
    (ChunksReturned /\ ValidConfig(args) /\ text # <<>>)
        => /\ chunks # <<>>
           /\ StartOf(1) = 0
           /\ EndOf(Len(chunks)) = Len(text)
           /\ \A i \in 2..Len(chunks) : StartOf(i) <= EndOf(i - 1)
           /\ \A p \in 0..(Len(text) - 1) :
                 \E i \in 1..Len(chunks) : StartOf(i) <= p /\ p < EndOf(i)

C3_Witness ==
    /\ ChunksReturned /\ ValidConfig(args)
    /\ Len(chunks) >= 2
    /\ \E i \in 2..Len(chunks) : StartOf(i) < EndOf(i - 1)

\* C4: every chunk emitted by chunk() has 0 <= start_char < end_char <= len(text)
\* and its content is the characters of the text from start_char up to, not
\* including, end_char.
C4_OffsetsAndContent ==
    \A i \in 1..Len(chunks) :
        /\ 0 <= StartOf(i)
        /\ StartOf(i) < EndOf(i)
        /\ EndOf(i) <= Len(text)
        /\ chunks[i].content = SubSeq(text, StartOf(i) + 1, EndOf(i))

\* C5: two calls of chunk() on the same text with the same chunkSize and
\* overlap return the same sequence of chunk IDs, contents and offsets,
\* whatever the path of the source and the time of the call.
C5_Deterministic ==
    (ChunksReturned /\ prev.ran
       /\ prev.chunk_size = args.chunk_size /\ prev.overlap = args.overlap)
        => /\ Len(chunks) = Len(prev.chunks)
           /\ \A i \in 1..Len(chunks) :
                 /\ IdOf(i) = prev.chunks[i].metadata.chunk_id
                 /\ chunks[i].content = prev.chunks[i].content
                 /\ StartOf(i) = prev.chunks[i].metadata.start_char
                 /\ EndOf(i) = prev.chunks[i].metadata.end_char

C5_Witness ==
    /\ ChunksReturned /\ prev.ran
    /\ prev.chunk_size = args.chunk_size /\ prev.overlap = args.overlap
    /\ Len(chunks) >= 2
    /\ chunks[1].metadata.source # prev.chunks[1].metadata.source
    /\ chunks[1].metadata.created_at # prev.chunks[1].metadata.created_at

\* the states in which chunks has just changed: chunk_text is running or has
\* just returned (chunks is not written to afterwards)
Emitting == pc = "chunking" \/ (pc = "writing" /\ wi = 1)

\* C6: within one call of chunk() every chunk ID is <hash>_<index>: a hash of
\* HashLen hexadecimal digits that is the same for all chunks, an underscore,
\* and the zero-based position of the chunk in emission order; so no two chunks
\* of the call share an ID.
C6_IdForm ==
    Emitting =>
        /\ \A i \in 1..Len(chunks) :
              /\ SubSeq(IdOf(i), 1, HashLen) = SubSeq(IdOf(1), 1, HashLen)
              /\ \A j \in 1..HashLen : IdOf(i)[j] \in HexSet
              /\ IdOf(i)[HashLen + 1] = "_"
              /\ SubSeq(IdOf(i), HashLen + 2, Len(IdOf(i))) = PyStr(i - 1)
        /\ \A i, j \in 1..Len(chunks) : IdOf(i) = IdOf(j) => i = j

C6_Witness == pc = "writing" /\ wi = 1 /\ Len(chunks) >= 3

\* the file names of the chunks that write_chunks has gone through
Visited == {FileName(chunks[i]) : i \in 1..(wi - 1)}

\* C7: in append mode write_chunks leaves every record that exists at the
\* target unchanged and counts only the chunks it did not skip; a second
\* append-mode run over the same chunks writes nothing and leaves the stored
\* set as it was.
C7_AppendKeepsExisting ==
    (pc \in {"writing", "done"} /\ args.append_mode)
        => /\ \A f \in DOMAIN files0 : f \in DOMAIN files /\ files[f] = files0[f]
           /\ written = Cardinality(Visited \ DOMAIN files0)
           /\ DOMAIN files = DOMAIN files0 \cup Visited
           /\ (pc = "done" /\ prev.ran
                 /\ \A i \in 1..Len(chunks) : FileName(chunks[i]) \in DOMAIN files0)
                => (written = 0 /\ files = files0)

C7_Witness ==
    /\ pc = "done" /\ args.append_mode /\ prev.ran
    /\ Len(chunks) >= 2
    /\ written = 0
    /\ \A i \in 1..Len(chunks) : files[FileName(chunks[i])] # JsonDump(chunks[i])

\* C8: chunking an empty text yields an empty chunk sequence and is not
\* reported as an error, for every chunkSize and overlap (stated here for the
\* valid ones, which no reading of the precondition rejects): the run of the
\* chunker ends with no chunk and with the success status 0.
C8_EmptyTextNoError ==
    (pc = "done" /\ text = <<>> /\ ValidConfig(args)) => (chunks = <<>> /\ exit = 0)

----------------------------------------------------------------------------
(* Properties of the index and of the session *)

\* the last call was an ask() that reached VectorStore.search
Searched == last.op = "ask" /\ last.outcome # "not_initialised"

\* the search of the last ask() returned a list
SearchReturned == last.op = "ask" /\ last.outcome \in {"answer", "no_info"}

\* the number of chunks of the index
IndexSize == Len(store.vecs)

\* C9: search(query, k) on an index of N chunks returns at most k results, and
\* returns all N chunks, without error, whenever k >= N; for 0 <= k the number
\* of results is exactly min(k, N).  ("At most k" is read as "none" for a
\* negative k.)
C9_ResultCount ==
    Searched =>
        /\ last.outcome # "IndexError"
        /\ Len(last.hits) <= Max(last.k, 0)
        /\ (last.k >= IndexSize => Len(last.hits) = IndexSize)
        /\ (last.k >= 0 => Len(last.hits) = Min(last.k, IndexSize))

\* chunk a comes before chunk b in the order of the scores sims: a higher
\* score first, and of two equal scores the chunk inserted earlier
Outranks(sims, a, b) == sims[a] > sims[b] \/ (sims[a] = sims[b] /\ a < b)

\* C10: the results of search(query, k) are in non-increasing score order, of
\* two chunks with equal score the one inserted earlier comes first, and the
\* list is the first k elements of that order over the whole corpus: no chunk
\* outside the result outranks a chunk inside it.
C10_RankedOrder ==
    SearchReturned =>
        LET h == last.hits
            sims == last.sims
            inside == {h[j].i : j \in 1..Len(h)}
        IN  /\ \A j \in 1..Len(h) : h[j].i \in 1..IndexSize /\ h[j].sim = sims[h[j].i]
            /\ \A j1, j2 \in 1..Len(h) : j1 < j2 => Outranks(sims, h[j1].i, h[j2].i)
            /\ \A c \in (1..IndexSize) \ inside :
                  \A j \in 1..Len(h) : Outranks(sims, h[j].i, c)
            /\ (last.k >= 0 => Len(h) = Min(last.k, IndexSize))

C10_Witness ==
    /\ SearchReturned
    /\ Len(last.hits) < IndexSize
    /\ \E j \in 1..(Len(last.hits) - 1) :
          /\ last.hits[j].sim = last.hits[j + 1].sim
          /\ last.hits[j].sim > 0
    /\ \E j \in 1..(Len(last.hits) - 1) :
          /\ last.hits[j].sim > last.hits[j + 1].sim
          /\ last.hits[j].i > last.hits[j + 1].i

\* C11: every similarity score returned by search(query, k) lies in the closed
\* interval [0, 1] (0..Scale in the units of the model), for every query and
\* every corpus.
C11_ScoreInUnitInterval ==
    SearchReturned =>
        \A j \in 1..Len(last.hits) :
            0 <= last.hits[j].sim /\ last.hits[j].sim <= Scale

\* the first n elements of s
Prefix(s, n) == SubSeq(s, 1, Min(n, Len(s)))

\* the session holds exactly the corpus A = "apple banana", B = "banana cherry",
\* C = "durian", in this order, and the last call searched it for "banana"
AskedBananaOfABC ==
    /\ SearchReturned
    /\ a_chunks = <<DocA, DocB, DocC>>
    /\ IndexSize = 3
    /\ last.q = <<"banana">>

\* C12: on the corpus A = "apple banana", B = "banana cherry", C = "durian"
\* (inserted in this order) the query "banana" scores A and B equally and both
\* strictly above C, so search returns A, then B, then C (the first k of them).
C12_BananaRanksABC ==
    AskedBananaOfABC =>
        /\ last.sims[1] = last.sims[2]
        /\ last.sims[2] > last.sims[3]
        /\ (last.k >= 0 =>
              [j \in 1..Len(last.hits) |-> last.hits[j].text]
                  = Prefix(<<DocA, DocB, DocC>>, last.k))

C12_Witness ==
    /\ AskedBananaOfABC
    /\ chunks_dir = DirABC
    /\ last.k = 3
    /\ Len(last.hits) = 3

\* the files of d that are valid records / that lack the key "content"
ValidIn(d) == {i \in 1..Len(d) : d[i].has_content /\ d[i].metadata = "ok"}
MissingContentIn(d) == {i \in 1..Len(d) : ~d[i].has_content}

\* the first setup() of the session has just returned, on a directory of five
\* valid records and one record without "content"
LoadedFiveAndOne ==
    /\ last.op = "setup" /\ setups = 1
    /\ Len(chunks_dir) = 6
    /\ Cardinality(ValidIn(chunks_dir)) = 5
    /\ Cardinality(MissingContentIn(chunks_dir)) = 1

\* C13: loading a directory of 5 valid chunk records and 1 record missing
\* content yields a corpus of size 4, exactly one logged warning, and a
\* successful setup().
C13_FiveAndOneGivesFour ==
    LoadedFiveAndOne =>
        /\ Len(a_chunks) = 4
        /\ last.skipped = 1
        /\ last.outcome = "true" /\ store.built

\* C13 (amended): loading a directory of 5 valid chunk records and 1 record
\* missing content yields a corpus of size 5 (every valid record is kept),
\* exactly one logged warning, and a successful setup() whose index holds the
\* 5 chunks.
C13_FiveAndOneGivesFive ==
    LoadedFiveAndOne =>
        /\ Len(a_chunks) = 5 /\ Len(a_meta) = 5 /\ IndexSize = 5
        /\ a_chunks = [j \in 1..5 |-> FiveValid[j].content]
        /\ last.skipped = 1
        /\ last.outcome = "true" /\ store.built

C13_Witness ==
    /\ LoadedFiveAndOne
    /\ ~chunks_dir[3].has_content
    /\ Len(a_chunks) = 5

\* _load_chunks prints "Skipped" for the file f
Skips(f) == ~f.has_content \/ f.metadata = "malformed"

\* setup() has been called on a directory that yields no valid chunk: it holds
\* no record at all, or every record of it is skipped
CalledOnZeroValid ==
    /\ setups > 0
    /\ \A i \in 1..Len(chunks_dir) : Skips(chunks_dir[i])

\* C14: setup() on a directory that yields zero valid chunks (no records at
\* all, or every record skipped) reports failure and builds no index; the
\* session is never ready with an empty corpus; and a later ask() still returns
\* the not-initialised result.
C14_EmptyCorpusFails ==
    /\ (CalledOnZeroValid /\ last.op = "setup") => last.outcome = "false"
    /\ CalledOnZeroValid => ~store.built
    /\ store.built => IndexSize > 0
    /\ (CalledOnZeroValid /\ last.op = "ask") => last.outcome = "not_initialised"

\* a record that load() is to keep: its content is a text and its metadata,
\* when it has one, is an object
ValidRecord(f) == f.has_content /\ IsStr(f.content) /\ f.metadata # "malformed"

\* the contents of the valid records of the directory d, in the order of d
RECURSIVE ValidContents(_)
ValidContents(d) ==
    IF d = <<>> THEN <<>>
    ELSE LET rest == ValidContents(SubSeq(d, 1, Len(d) - 1))
         IN  IF ValidRecord(d[Len(d)]) THEN Append(rest, d[Len(d)].content) ELSE rest

\* C15: for every directory, load() skips each record that is malformed or
\* lacks the content field, with one warning each, and keeps every valid
\* record; and setup() never raises because of a malformed record, whatever
\* the record holds (a content that is not a string and a malformed metadata
\* included).  Stated for the first setup() of a session.
C15_MalformedRecordsSkipped ==
    (last.op = "setup" /\ setups = 1) =>
        /\ last.outcome \in {"true", "false"}
        /\ a_chunks = ValidContents(chunks_dir)
        /\ last.skipped = Len(chunks_dir) - Len(ValidContents(chunks_dir))

\* C16: ask(question, k) on a session whose setup() never completed
\* successfully (never called, or called and failed) returns the "not
\* initialised" result, never raises, and leaves the state of the session
\* unchanged, for every question and k.
C16_AskBeforeSetup ==
    [][(last'.op = "ask" /\ ~store.built)
          => /\ last'.outcome = "not_initialised"
             /\ UNCHANGED <<chunks_dir, a_chunks, a_meta, store, setups>>]_vars

\* ask() has answered a session whose setup() was called and raised
C16_Witness ==
    /\ last.op = "ask" /\ last.outcome = "not_initialised"
    /\ last.q # <<>> /\ last.k > 0
    /\ setups > 0 /\ a_chunks # <<>> /\ ~store.built

\* some chunk of the index has a nonzero score in the last search
SomeScoreNonzero == \E i \in 1..Len(last.sims) : last.sims[i] # 0

\* C17: ask() on a ready session returns the "no relevant information" result
\* whenever no chunk has a nonzero similarity score for the query (in
\* particular when the query shares no word with any chunk), and returns
\* formatted chunks only when at least one candidate scores above zero.
C17_NoRelevantInformation ==
    SearchReturned =>
        /\ ~SomeScoreNonzero => last.outcome = "no_info"
        /\ last.outcome = "answer" => SomeScoreNonzero

\* the state of the session: self.store is None before setup() is called
\* (Uninitialized) and after every setup() that did not build it (Failed)
SessionState ==
    IF store.built THEN "Ready"
    ELSE IF setups = 0 THEN "Uninitialized" ELSE "Failed"

\* C18: the session is always in one of the states Uninitialized, Ready,
\* Failed; its state changes only from Uninitialized to Ready and from
\* Uninitialized to Failed; and no setup() or ask() takes a Ready session to
\* another state.
C18_SessionStateMachine ==
    [][/\ SessionState' \in {"Uninitialized", "Ready", "Failed"}
       /\ SessionState' # SessionState
             => /\ SessionState = "Uninitialized"
                /\ SessionState' \in {"Ready", "Failed"}
       /\ SessionState = "Ready" => SessionState' = "Ready"]_vars

\* what search(last.q, last.k) returns in this state: the scores and the chunks
SimsNow == Sims(store, last.q)
RankedNow == Ranked(SimsNow, last.k)

\* the search of the last ask(), made again now, returns what it returned
Repeatable ==
    SearchReturned =>
        /\ SimsNow = last.sims
        /\ [j \in 1..Len(RankedNow) |-> Hit(RankedNow[j], SimsNow)] = last.hits

\* C19: the index is read-only after it is built: a call of search() / ask()
\* leaves the number of chunks, the document-frequency map, the vocabulary,
\* the cached vectors, the texts and the metadata unchanged, so the same query
\* with the same k returns the same result again.
C19_IndexReadOnly ==
    /\ [][last'.op = "ask" => UNCHANGED <<store, a_chunks, a_meta>>]_vars
    /\ []Repeatable

C19_Witness ==
    /\ SearchReturned
    /\ Len(Tokenise(last.q)) = 2
    /\ \E t \in Range(Tokenise(last.q)) : t \notin store.vect.vocab
    /\ Len(last.hits) >= 2
    /\ last.hits[1].sim > 0

\* sqrt(sum(v * v for v in a.values())) is zero
ZeroNorm(v) == \A t \in DOMAIN v : v[t] = 0

DocsWith(docs, t) == {i \in 1..Len(docs) : t \in Range(Tokenise(docs[i]))}

\* every token of every document of docs
AllTokens(docs) == UNION {Range(Tokenise(docs[i])) : i \in 1..Len(docs)}

\* C21: after fit(documents) on a fresh vectorizer, N is the number of
\* documents and df[t] is, for every term t, the number of documents whose
\* token set contains t (a document counts once however often t occurs in
\* it); so 1 <= df[t] <= N for every term of the vocabulary, and the
\* vocabulary is exactly the set of the terms with df[t] >= 1.
C21_FitCountsDocuments ==
    last.op = "fit" =>
        LET v == last.vect
            docs == last.docs
        IN  /\ v.doc_cnt = Len(docs)
            /\ DOMAIN v.df = AllTokens(docs)
            /\ \A t \in AllTokens(docs) : v.df[t] = Cardinality(DocsWith(docs, t))
            /\ \A t \in v.vocab : 1 <= v.df[t] /\ v.df[t] <= v.doc_cnt
            /\ v.vocab = {t \in DOMAIN v.df : v.df[t] >= 1}

C21_Witness ==
    /\ last.op = "fit"
    /\ Len(last.docs) = 3
    /\ <<"banana", "banana">> \in Range(last.docs)
    /\ <<"The", "x">> \in Range(last.docs)
    /\ last.vect.df["banana"] = 2

\* the script was started on a directory that is missing, or holds no chunk
\* record, or holds only records that load() is not to keep
StartedWithoutUsableRecord ==
    /\ cli.pc # "off"
    /\ \/ ~cli.exists
       \/ \A i \in 1..Len(chunks_dir) : ~ValidRecord(chunks_dir[i])

\* C22: the retrieval CLI exits with a nonzero status, without ever entering
\* the query loop (and so without reading a query), when the chunks directory
\* is missing, contains no chunk records, or contains only unusable records.
C22_NoLoopWithoutUsableRecord ==
    StartedWithoutUsableRecord =>
        /\ cli.loops = 0
        /\ cli.reads = 0
        /\ cli.pc = "exited" => cli.status # 0

\* one call of input() is made in the step
ReadsOne == cli.pc = "loop" /\ cli'.reads = cli.reads + 1

\* C23: the retrieval CLI runs one interactive loop: each nonempty line that
\* is not an exit keyword is answered by exactly one ask(), and once an exit
\* keyword (exit or quit, any letter case) or end of input is read the tool
\* reads no further query and the process terminates.
C23_OneLoopUntilExit ==
    /\ [](cli.loops <= 1)
    /\ [][ReadsOne => cli'.asked = IF ReadsQuery(cli)
                                   THEN Append(cli.asked, Strip(Head(cli.stdin)))
                                   ELSE cli.asked]_vars
    /\ [][cli.stopped => (cli'.reads = cli.reads /\ cli'.asked = cli.asked)]_vars
    /\ (cli.stopped ~> cli.pc = "exited")

----------------------------------------------------------------------------
(* Properties of the chunker, continued *)

\* the orders in which n writes can be performed
Orders(n) == {o \in [1..n -> 1..n] : \A i, j \in 1..n : o[i] = o[j] => i = j}

\* C24: the chunks of one source are written to pairwise distinct paths
\* determined by their IDs, so the set of stored records after write_chunks is
\* the same for every order in which the per-chunk writes are performed: it is
\* the one the sequential loop leaves.
C24_WritesOrderIndependent ==
    pc = "done" =>
        /\ \A i, j \in 1..Len(chunks) :
              FileName(chunks[i]) = FileName(chunks[j]) => i = j
        /\ \A i, j \in 1..Len(chunks) :
              IdOf(i) = IdOf(j) => FileName(chunks[i]) = FileName(chunks[j])
        /\ \A o \in Orders(Len(chunks)) :
              WriteInOrder(files0, chunks, o, args.append_mode) = files

\* an append-mode run of three chunks, of which some were skipped and some
\* written
C24_Witness ==
    /\ pc = "done" /\ args.append_mode
    /\ Len(chunks) >= 3
    /\ 0 < written /\ written < Len(chunks)

\* C25: for every text and valid chunkSize/overlap, chunk() produces exactly
\* the sliding-window sequence: chunk 0 starts at position 0; chunk i spans
\* [pos_i, min(pos_i + chunkSize, len(text))); pos_{i+1} = end_i - overlap;
\* iteration stops at the first chunk whose end equals len(text); every chunk
\* except the last has length exactly chunkSize and only the last chunk may
\* be shorter.
C25_SlidingWindow ==
    (pc # "idle" /\ ValidConfig(args)) =>
        /\ chunks # <<>> => StartOf(1) = 0
        /\ \A i \in 1..Len(chunks) :
              /\ EndOf(i) = Min(StartOf(i) + args.chunk_size, Len(text))
              /\ chunks[i].content = PySlice(text, StartOf(i), EndOf(i))
        /\ \A i \in 2..Len(chunks) : StartOf(i) = EndOf(i - 1) - args.overlap
        /\ \A i \in 1..(Len(chunks) - 1) :
              /\ EndOf(i) # Len(text)
              /\ EndOf(i) - StartOf(i) = args.chunk_size
        /\ (ChunksReturned /\ text # <<>>) =>
              /\ chunks # <<>>
              /\ EndOf(Len(chunks)) = Len(text)
              /\ EndOf(Len(chunks)) - StartOf(Len(chunks)) <= args.chunk_size
        /\ (ChunksReturned /\ text = <<>>) => chunks = <<>>

\* a call has returned several chunks with an overlap, and another one a last
\* chunk that is shorter than chunkSize
C25_Witness ==
    /\ ChunksReturned /\ ValidConfig(args) /\ prev.ran /\ ValidConfig(prev)
    /\ Len(chunks) >= 2
    /\ EndOf(Len(chunks)) - StartOf(Len(chunks)) < args.chunk_size
    /\ Len(prev.chunks) >= 2
    /\ prev.overlap > 0

\* C26: for every text and every chunkSize > 0 with 0 <= overlap < chunkSize,
\* chunk() terminates: the window start strictly increases from one chunk to
\* the next, at most len(text) chunks are emitted, and the loop ends, for a
\* nonempty text with a chunk whose end is len(text).
C26_ChunkTerminates ==
    /\ [][(pc = "chunking" /\ pc' = "chunking" /\ ValidConfig(args)
             /\ chunks' # chunks) => pos' > pos]_vars
    /\ []((pc # "idle" /\ ValidConfig(args)) =>
             /\ Len(chunks) <= Len(text)
             /\ \A i \in 2..Len(chunks) : StartOf(i) > StartOf(i - 1))
    /\ ((pc = "chunking" /\ ValidConfig(args))
          ~> (/\ ChunksReturned
              /\ text # <<>> => (chunks # <<>> /\ EndOf(Len(chunks)) = Len(text))))

\* a call with an overlap has returned after several iterations
C26_Witness ==
    /\ ChunksReturned /\ ValidConfig(args)
    /\ args.overlap > 0
    /\ Len(chunks) = Len(text) - 1
    /\ Len(chunks) >= 2

\* two runs of the chunker over the text, both with valid settings
TwoValidRuns == prev.ran /\ ValidConfig(prev) /\ ValidConfig(args)

\* json.load(f)["content"] of a stored record
StoredContent(data) == data[2]

\* C29: a chunk ID determines the chunk: any two chunks produced by chunk()
\* from the same source text that carry the same ID have the same content and
\* the same offsets, for every pair of valid chunkSize/overlap settings used
\* in the two runs; so a record skipped in append mode is always equal in
\* content to the chunk that would have been written.
C29_IdDeterminesChunk ==
    /\ (ChunksReturned /\ TwoValidRuns) =>
          \A i \in 1..Len(chunks), j \in 1..Len(prev.chunks) :
              IdOf(i) = prev.chunks[j].metadata.chunk_id =>
                  /\ chunks[i].content = prev.chunks[j].content
                  /\ StartOf(i) = prev.chunks[j].metadata.start_char
                  /\ EndOf(i) = prev.chunks[j].metadata.end_char
    /\ (pc = "done" /\ TwoValidRuns /\ args.append_mode) =>
          \A i \in 1..Len(chunks) :
              FileName(chunks[i]) \in DOMAIN files0 =>
                  StoredContent(files[FileName(chunks[i])]) = chunks[i].content

\* the chunks that write_chunks has gone through and did not skip
NotSkipped ==
    {i \in 1..(wi - 1) :
        ~(args.append_mode /\ FileName(chunks[i]) \in DOMAIN files0)}

\* C30: the chunker CLI returns exit status 0 if and only if at least one
\* chunk record was written during that run, and write_chunks returns exactly
\* the number of chunks not skipped; in particular a run in append mode in
\* which every record already exists, and a run over an empty source, both
\* return status 1.
C30_ExitStatusCountsWrites ==
    /\ pc \in {"writing", "done"} => written = Cardinality(NotSkipped)
    /\ pc = "done" =>
          /\ exit = 0 <=> NotSkipped # {}
          /\ exit \in {0, 1}
          /\ (args.append_mode /\ \A i \in 1..Len(chunks) :
                                     FileName(chunks[i]) \in DOMAIN files0)
                => exit = 1
          /\ text = <<>> => exit = 1

\* an append-mode run has ended in which every record existed, and the
\* directory holds the records of an earlier run
C30_Witness ==
    /\ pc = "done" /\ args.append_mode
    /\ chunks # <<>>
    /\ \A i \in 1..Len(chunks) : FileName(chunks[i]) \in DOMAIN files0
    /\ exit = 1

----------------------------------------------------------------------------
(* Properties of the session, continued *)

\* the text txt and the metadata md come from one record of the directory
SameRecord(txt, md) ==
    \E i \in 1..Len(chunks_dir) :
        /\ chunks_dir[i].has_content
        /\ chunks_dir[i].content = txt
        /\ chunks_dir[i].metadata # "malformed"
        /\ md = MetaOf(chunks_dir[i], i)

\* C27: after load, the session's list of chunk contents and its list of
\* metadata have the same length, and the metadata at position i comes from
\* the same record as the content at position i, for every directory content,
\* records with a content field and malformed metadata included; so search
\* never pairs a chunk's text with another record's source and never indexes
\* past the metadata list.
C27_ChunksAndMetaAligned ==
    /\ Len(a_chunks) = Len(a_meta)
    /\ \A i \in 1..Len(a_chunks) : SameRecord(a_chunks[i], a_meta[i])
    /\ last.op = "ask" =>
          /\ last.outcome # "IndexError"
          /\ \A j \in 1..Len(last.hits) :
                SameRecord(last.hits[j].text, last.hits[j].meta)

\* setup() is called again, and glob returns the files it returned before
SetupAgainUnchanged ==
    /\ setups >= 1
    /\ setups' = setups + 1
    /\ last'.op = "setup"
    /\ chunks_dir' = chunks_dir

\* C28: calling setup() again on the same session over an unchanged directory
\* does not change the corpus: after any number of setup() calls the session's
\* chunk list holds each valid record exactly once and the index is built over
\* exactly those chunks.
C28_SetupIdempotent ==
    [][SetupAgainUnchanged =>
          /\ a_chunks' = a_chunks
          /\ a_meta' = a_meta
          /\ store' = store
          /\ a_chunks' = ValidContents(chunks_dir')
          /\ store'.built => Len(store'.vecs) = Len(ValidContents(chunks_dir'))]_vars

====
